---- MODULE Spec2Model ----
(***************************************************************************)
(* Market-data cache (ticker store, order-book store) and the event engine *)
(* of gocryptotrader.                                                      *)
(*                                                                         *)
(*   Spec      sequential use of the two stores: whole ProcessTicker /     *)
(*             ProcessOrderbook and GetTicker / GetOrderbook calls.        *)
(*   SpecConc  connector tasks running the same calls concurrently, one    *)
(*             step per critical section of the store mutex.               *)
(*   SpecEng   the event registry and the EventManger loop over the        *)
(*             stores.                                                     *)
(***************************************************************************)
EXTENDS Integers, Sequences, FiniteSets, TLC

VARIABLES
    stores,      \* [ticker |-> Tickers, orderbook |-> Orderbooks]: the two package-level slices
    locks,       \* [ticker |-> holder of ticker.m, orderbook |-> holder of orderbook.m]
    now,         \* the wall clock read by time.Now()
    panicked,    \* "" while the process runs, else the runtime error that ended it
    calls,       \* [upsert, lookup, remove |-> number of such calls started so far]
    lastUpsert,  \* the most recent completed upsert (sequential use), or NoCall
    ret,         \* what the call just made returned, NoCall once another step was taken
    tasks,       \* connector tasks: position in the call, arguments, locals
    written,     \* per (store, exchange, pair, asset): the snapshot of the last write
    focus,       \* the store the calls of this run go to
    heap,        \* the Event structs allocated by Add, in allocation order
    Events,      \* the package-level slice of *Event: [arr |-> backing array, len |-> length]
    mgr,         \* the EventManger loop: position, the slice it ranges over, ticks done
    trail,       \* per Event struct: what the engine did with it so far
    comms,       \* the notification collaborator and the log: messages received so far
    base,        \* an exchange.Base: its Name and its enabled and available pairs
    cfg          \* the configuration: per exchange name, the two pair lists as strings

storeVars == <<stores, locks, now, panicked, calls, lastUpsert, ret, tasks, written, focus>>
engVars == <<heap, Events, mgr, trail, comms>>
cfgVars == <<base, cfg>>
vars == <<storeVars, engVars, cfgVars>>

----------------------------------------------------------------------------
\* Bounds and input domains

MaxUpserts == 2

StoreNames == {"ticker", "orderbook"}
Exchanges == {"Bitmex", "Exmo"}
AssetTypes == {"SPOT", "FUTURES"}

\* pair.CurrencyPair: the two legs (the delimiter is empty for NewCurrencyPair)
NewCurrencyPair(first, second) == [FirstCurrency |-> first, SecondCurrency |-> second]
EmptyPair == NewCurrencyPair("", "")
\* two quotes under one base, and a second base
Pairs == {NewCurrencyPair("BTC", "USD"), NewCurrencyPair("BTC", "EUR"),
          NewCurrencyPair("LTC", "USD")}

\* CurrencyPair.Pair().String(): the legs joined
Pair(p) == p.FirstCurrency \o p.SecondCurrency

\* orderbook.Item
Item(amount, price) == [Amount |-> amount, Price |-> price]

\* ticker.Price (of the seven price fields, all copied alike, Last is kept)
ZeroPrice == [Pair |-> EmptyPair, CurrencyPair |-> "", LastUpdated |-> 0, Last |-> 0]
\* orderbook.Base
ZeroBase == [Pair |-> EmptyPair, CurrencyPair |-> "", LastUpdated |-> 0,
             Bids |-> <<>>, Asks |-> <<>>]
Zero(s) == IF s = "ticker" THEN ZeroPrice ELSE ZeroBase

\* What a connector hands to ProcessTicker / ProcessOrderbook for pair p: a
\* snapshot with Pair and the display pair left unset, or one with Pair set and
\* the exchange's own symbol as display pair (as Bitmex.UpdateTicker does).
Inputs(s, p) ==
    IF s = "ticker"
    THEN {[Pair |-> EmptyPair, CurrencyPair |-> "", LastUpdated |-> 0, Last |-> 1],
          [Pair |-> p, CurrencyPair |-> "XBTUSD", LastUpdated |-> 0, Last |-> 2]}
    ELSE {[Pair |-> EmptyPair, CurrencyPair |-> "", LastUpdated |-> 0,
           Bids |-> <<Item(5, 10)>>, Asks |-> <<Item(1, 11)>>],
          [Pair |-> p, CurrencyPair |-> "XBTUSD", LastUpdated |-> 0,
           Bids |-> <<Item(5, 10), Item(6, 10)>>, Asks |-> <<>>]}

----------------------------------------------------------------------------
\* The nested maps

ErrExchangeNotFound == "ExchangeNotFound"
ErrPrimaryCurrencyNotFound == "PrimaryCurrencyNotFound"
ErrSecondaryCurrencyNotFound == "SecondaryCurrencyNotFound"
NoError == ""

NilMap == <<>>
\* m[k] of a Go map: the zero value when k is missing (or m is nil)
Get(m, k, zero) == IF k \in DOMAIN m THEN m[k] ELSE zero
\* m[k] = v
Put(m, k, v) == (k :> v) @@ m

\* for _, y := range Tickers { if y.ExchangeName == exchange { return &y } }:
\* the index of the first registration of the exchange, 0 for the error
GetByExchange(regs, exchange) ==
    IF \E i \in 1..Len(regs) : regs[i].ExchangeName = exchange
    THEN CHOOSE i \in 1..Len(regs) :
            /\ regs[i].ExchangeName = exchange
            /\ \A j \in 1..(i - 1) : regs[j].ExchangeName # exchange
    ELSE 0

FirstCurrencyExists(regs, exchange, currency) ==
    \E i \in 1..Len(regs) :
        /\ regs[i].ExchangeName = exchange
        /\ currency \in DOMAIN regs[i].Map

SecondCurrencyExists(regs, exchange, p) ==
    \E i \in 1..Len(regs) :
        /\ regs[i].ExchangeName = exchange
        /\ p.FirstCurrency \in DOMAIN regs[i].Map
        /\ p.SecondCurrency \in DOMAIN regs[i].Map[p.FirstCurrency]

\* CreateNewTicker / CreateNewOrderbook: append a registration holding the one snapshot
CreateNew(regs, exchangeName, p, snap, a) ==
    Append(regs, [ExchangeName |-> exchangeName,
                  Map |-> (p.FirstCurrency :> (p.SecondCurrency :> (a :> snap)))])

\* (a slip that would leave the stored snapshot as it was)
UpdatePairSkipped(regs, idx, p, snap, a) == regs

\* (a slip that would replace the quotes of the base by the one quote)
UpdatePairAlone(regs, idx, p, snap, a) ==
    [regs EXCEPT ![idx].Map[p.FirstCurrency] = (p.SecondCurrency :> (a :> snap))]

\* (a slip that would store an empty map of asset types over an existing pair)
UpdatePairClearing(regs, idx, p, snap, a) ==
    [regs EXCEPT ![idx].Map[p.FirstCurrency] = Put(@, p.SecondCurrency, NilMap)]

\* ticker.Price[p.FirstCurrency][p.SecondCurrency] = a, with a := {tickerType: tickerNew}
UpdatePair(regs, idx, p, snap, a) ==
    [regs EXCEPT ![idx].Map[p.FirstCurrency] = Put(@, p.SecondCurrency, (a :> snap))]

\* the assignment above panics when ticker.Price[p.FirstCurrency] is a nil map
UpdatePanics(regs, idx, p) == p.FirstCurrency \notin DOMAIN regs[idx].Map

\* ticker.Price[p.FirstCurrency] = a, with a := {second: {tickerType: tickerNew}}
NewFirst(regs, idx, p, snap, a) ==
    [regs EXCEPT ![idx].Map = Put(@, p.FirstCurrency, (p.SecondCurrency :> (a :> snap)))]

\* (a slip that would answer a missing asset type with a snapshot of another)
ReadSnapshotOfAnyType(regs, idx, p, a, zero) ==
    LET m == Get(Get(regs[idx].Map, p.FirstCurrency, NilMap), p.SecondCurrency, NilMap)
    IN  IF a \in DOMAIN m \/ DOMAIN m = {} THEN Get(m, a, zero)
        ELSE m[CHOOSE k \in DOMAIN m : TRUE]

\* return ticker.Price[p.FirstCurrency][p.SecondCurrency][tickerType]
ReadSnapshot(regs, idx, p, a, zero) ==
    Get(Get(Get(regs[idx].Map, p.FirstCurrency, NilMap), p.SecondCurrency, NilMap), a, zero)

\* the head of ProcessTicker / ProcessOrderbook: back-fill Pair, set the display
\* pair and the time stamp
Normalise(snap, p, time) ==
    [snap EXCEPT !.Pair = IF Pair(snap.Pair) = "" THEN p ELSE snap.Pair,
                 !.CurrencyPair = Pair(p),
                 !.LastUpdated = time]

\* GetTicker / GetOrderbook run alone
Lookup(regs, exchange, p, a, zero) ==
    LET idx == GetByExchange(regs, exchange) IN
    IF idx = 0 THEN [err |-> ErrExchangeNotFound, snap |-> zero]
    ELSE IF ~FirstCurrencyExists(regs, exchange, p.FirstCurrency)
    THEN [err |-> ErrPrimaryCurrencyNotFound, snap |-> zero]
    ELSE IF ~SecondCurrencyExists(regs, exchange, p)
    THEN [err |-> ErrSecondaryCurrencyNotFound, snap |-> zero]
    ELSE [err |-> NoError, snap |-> ReadSnapshot(regs, idx, p, a, zero)]

\* ProcessTicker / ProcessOrderbook run alone, on the normalised snapshot
Process(regs, exchangeName, p, snap, a) ==
    LET idx == GetByExchange(regs, exchangeName) IN
    IF idx = 0 THEN [panic |-> FALSE, regs |-> CreateNew(regs, exchangeName, p, snap, a)]
    ELSE IF FirstCurrencyExists(regs, exchangeName, p.FirstCurrency)
    THEN IF UpdatePanics(regs, idx, p)
         THEN [panic |-> TRUE, regs |-> regs]
         ELSE [panic |-> FALSE, regs |-> UpdatePair(regs, idx, p, snap, a)]
    ELSE [panic |-> FALSE, regs |-> NewFirst(regs, idx, p, snap, a)]

GetTicker(exchange, p, tickerType) == Lookup(stores.ticker, exchange, p, tickerType, ZeroPrice)
GetOrderbook(exchange, p, orderbookType) ==
    Lookup(stores.orderbook, exchange, p, orderbookType, ZeroBase)

----------------------------------------------------------------------------
\* Sequential use of the stores

NoTask == "none"
NoCall == [op |-> "none"]
Tasks == {"t1", "t2"}
IdleTask == [pc |-> "idle"]

Key(s, exchange, p, a) == <<s, exchange, p.FirstCurrency, p.SecondCurrency, a>>

StoreInit ==
    /\ stores = [ticker |-> <<>>, orderbook |-> <<>>]
    /\ locks = [ticker |-> NoTask, orderbook |-> NoTask]
    /\ now = 1
    /\ panicked = ""
    /\ calls = [upsert |-> 0, lookup |-> 0, remove |-> 0]
    /\ lastUpsert = NoCall
    /\ ret = NoCall
    /\ tasks = [t \in Tasks |-> IdleTask]
    /\ written = <<>>
    \* The two stores share no state (two package variables, two mutexes): a run
    \* over both is an interleaving of a run over each, so a run exercises one.
    /\ focus \in StoreNames
    /\ heap = <<>>
    /\ Events = [arr |-> <<>>, len |-> 0, gen |-> 0]
    /\ mgr = [pc |-> "sleep", tick |-> 0, i |-> 0, len |-> 0, gen |-> 0, old |-> <<>>]
    /\ trail = <<>>
    /\ comms = [pushed |-> 0, probed |-> 0, logged |-> 0, delivered |-> 0]
    \* Base{Name: "ANX"} and a configuration that holds ANX
    /\ base = [Name |-> "ANX", Enabled |-> <<>>, Available |-> <<>>]
    /\ cfg = ("ANX" :> [Enabled |-> "", Available |-> ""])

\* ProcessTicker(exchangeName, p, tickerNew, tickerType) from start to return
Upsert(s, exchangeName, p, snap, a) ==
    LET new == Normalise(snap, p, now)
        r == Process(stores[s], exchangeName, p, new, a) IN
    /\ panicked = ""
    /\ s = focus
    /\ calls.upsert < MaxUpserts
    /\ calls' = [calls EXCEPT !.upsert = @ + 1]
    /\ now' = now + 1
    /\ IF r.panic
       THEN /\ panicked' = "assignment to entry in nil map"
            /\ locks' = [locks EXCEPT ![s] = "caller"]
            /\ UNCHANGED <<stores, lastUpsert, written>>
       ELSE /\ stores' = [stores EXCEPT ![s] = r.regs]
            /\ lastUpsert' = [op |-> "upsert", store |-> s, exchange |-> exchangeName,
                              pair |-> p, asset |-> a, input |-> snap, time |-> now,
                              \* the call repeats the upsert before it
                              again |-> /\ lastUpsert.op = "upsert"
                                        /\ lastUpsert.exchange = exchangeName
                                        /\ lastUpsert.pair = p
                                        /\ lastUpsert.asset = a
                                        /\ lastUpsert.input = snap]
            /\ written' = Put(written, Key(s, exchangeName, p, a), new)
            /\ UNCHANGED <<panicked, locks>>
    /\ ret' = NoCall
    /\ UNCHANGED <<tasks, focus>>
    /\ UNCHANGED <<engVars, cfgVars>>

\* GetTicker(exchange, p, tickerType) from start to return
LookupCall(s, exchange, p, a) ==
    LET r == Lookup(stores[s], exchange, p, a, Zero(s)) IN
    /\ panicked = ""
    /\ s = focus
    \* a lookup changes nothing but ret: the state after two lookups is the state
    \* after the second alone
    /\ ret = NoCall
    /\ ret' = [op |-> "lookup", store |-> s, exchange |-> exchange, pair |-> p,
               asset |-> a, err |-> r.err, snap |-> r.snap]
    /\ UNCHANGED <<stores, locks, now, panicked, calls, lastUpsert, tasks, written, focus>>
    /\ UNCHANGED <<engVars, cfgVars>>

UpsertAny ==
    \E s \in StoreNames, e \in Exchanges, p \in Pairs, a \in AssetTypes :
        \E snap \in Inputs(s, p) : Upsert(s, e, p, snap, a)

LookupAny ==
    \E s \in StoreNames, e \in Exchanges, p \in Pairs, a \in AssetTypes :
        LookupCall(s, e, p, a)

Next == UpsertAny \/ LookupAny

Spec == StoreInit /\ [][Next]_vars

----------------------------------------------------------------------------
\* The connector of Bitmex reading through the cache

MaxFetchCalls == 2

errRest == "Bitmex REST error"
errNoTicker == "Bitmex REST error: no ticker return"

\* what the REST call of UpdateTicker / UpdateOrderbook can come back with:
\* an error, no trade (ticker), or market data
Replies(s) ==
    {[err |-> errRest, data |-> Zero(s)]}
    \cup (IF s = "ticker" THEN {[err |-> errNoTicker, data |-> Zero(s)]} ELSE {})
    \cup {[err |-> NoError, data |-> snap] : snap \in Inputs(s, EmptyPair)}

\* the snapshot UpdateTicker / UpdateOrderbook builds of a reply
Built(s, p, reply, time) ==
    IF s = "ticker"
    THEN [ZeroPrice EXCEPT !.Pair = p, !.LastUpdated = time,
                           !.CurrencyPair = "XBTUSD", !.Last = reply.data.Last]
    ELSE [ZeroBase EXCEPT !.Bids = reply.data.Bids, !.Asks = reply.data.Asks]

\* a refresh on every call, the cache never trusted
FetchHitNever(r) == FALSE
\* if err != nil { return b.UpdateTicker(p, assetType) }; return tickerNew, nil
FetchHit(r) == r.err = NoError

\* b.FetchTicker(p, assetType) / b.FetchOrderbook(p, assetType), the call of
\* UpdateTicker / UpdateOrderbook included
Fetch(s, p, a, reply) ==
    LET r == Lookup(stores[s], "Bitmex", p, a, Zero(s))
        built == Built(s, p, reply, now)
        new == Normalise(built, p, now)
        u == Process(stores[s], "Bitmex", p, new, a)
        after == Lookup(u.regs, "Bitmex", p, a, Zero(s))
        call == [op |-> "fetch", store |-> s, exchange |-> "Bitmex", pair |-> p, asset |-> a]
    IN  /\ panicked = ""
        /\ s = focus
        /\ calls' = [calls EXCEPT !.lookup = @ + 1]
        /\ IF FetchHit(r)
           THEN /\ ret' = call @@ [err |-> NoError, snap |-> r.snap, refreshed |-> FALSE]
                /\ UNCHANGED <<stores, now, panicked, locks, lastUpsert, written>>
           ELSE IF reply.err # NoError
           THEN /\ ret' = call @@ [err |-> reply.err, snap |-> Zero(s), refreshed |-> FALSE]
                /\ UNCHANGED <<stores, now, panicked, locks, lastUpsert, written>>
           ELSE IF u.panic
           THEN /\ panicked' = "assignment to entry in nil map"
                /\ locks' = [locks EXCEPT ![s] = "caller"]
                /\ ret' = NoCall
                /\ UNCHANGED <<stores, now, lastUpsert, written>>
           ELSE /\ stores' = [stores EXCEPT ![s] = u.regs]
                /\ now' = now + 1
                /\ lastUpsert' = [op |-> "upsert", store |-> s, exchange |-> "Bitmex",
                                  pair |-> p, asset |-> a, input |-> built, time |-> now,
                                  again |-> FALSE]
                /\ written' = Put(written, Key(s, "Bitmex", p, a), new)
                \* UpdateTicker returns the snapshot it built, UpdateOrderbook
                \* the one it reads back from the store
                /\ ret' = call @@ [err |-> IF s = "ticker" THEN NoError ELSE after.err,
                                   snap |-> IF s = "ticker" THEN built ELSE after.snap,
                                   refreshed |-> TRUE]
                /\ UNCHANGED <<panicked, locks>>
        /\ UNCHANGED <<tasks, focus>>
        /\ UNCHANGED <<engVars, cfgVars>>

FetchAny ==
    /\ calls.upsert + calls.lookup < MaxFetchCalls
    /\ \E s \in StoreNames, p \in Pairs, a \in AssetTypes :
          \E reply \in Replies(s) : Fetch(s, p, a, reply)

\* the upserts made by the routines that poll the exchanges
FetchUpsert == calls.upsert + calls.lookup < MaxFetchCalls /\ UpsertAny

FetchNext == FetchAny \/ FetchUpsert

SpecFetch == StoreInit /\ [][FetchNext]_vars

----------------------------------------------------------------------------
\* Claims on the sequential use of the stores

SameTriple(u, r) ==
    /\ u.store = r.store /\ u.exchange = r.exchange
    /\ u.pair = r.pair /\ u.asset = r.asset

\* a lookup of the triple just upserted has returned, with no upsert in between
LookupAfterUpsert ==
    /\ lastUpsert.op = "upsert"
    /\ ret.op = "lookup"
    /\ SameTriple(lastUpsert, ret)

\* the market data of a snapshot: every field but Pair, CurrencyPair, LastUpdated
Payload(s, snap) == IF s = "ticker" THEN <<snap.Last>> ELSE <<snap.Bids, snap.Asks>>

\* C1 as stated: after ProcessTicker(ex, p, s, a) (resp. ProcessOrderbook), with
\* no other upsert in between, GetTicker(ex, p, a) (resp. GetOrderbook) returns
\* no error and a snapshot equal to s in every field except LastUpdated.
C1_RoundTripEveryField ==
    LookupAfterUpsert =>
        /\ ret.err = NoError
        /\ [ret.snap EXCEPT !.LastUpdated = 0] = [lastUpsert.input EXCEPT !.LastUpdated = 0]

\* C1 as amended: the lookup returns no error and a snapshot equal to s in its
\* market data; its Pair is that of s, or p when s left it unset; LastUpdated
\* is the time of the call or later.
C1_RoundTrip ==
    LookupAfterUpsert =>
        /\ ret.err = NoError
        /\ Payload(ret.store, ret.snap) = Payload(ret.store, lastUpsert.input)
        /\ ret.snap.Pair = IF lastUpsert.input.Pair = EmptyPair
                           THEN lastUpsert.pair ELSE lastUpsert.input.Pair
        /\ ret.snap.LastUpdated >= lastUpsert.time

\* a second upsert of a triple, with Pair unset, has been looked up
C1_Witness ==
    /\ LookupAfterUpsert
    /\ calls.upsert = 2
    /\ lastUpsert.input.Pair = EmptyPair
    /\ ret.snap.Pair = lastUpsert.pair
    /\ Len(stores[focus]) = 1

\* an upsert has just returned
UpsertStep == calls'.upsert = calls.upsert + 1 /\ panicked' = ""

\* C2: an upsert for (exchange, pair, a) leaves the snapshot of every other asset
\* type a2 already upserted under the same exchange and pair as it was: the
\* lookup of (exchange, pair, a2) returns the same before and after.
C2_OtherAssetTypesKept ==
    [][UpsertStep =>
        \A a2 \in AssetTypes \ {lastUpsert'.asset} :
            LET u == lastUpsert' IN
            Key(u.store, u.exchange, u.pair, a2) \in DOMAIN written =>
                Lookup(stores'[u.store], u.exchange, u.pair, a2, Zero(u.store))
                    = Lookup(stores[u.store], u.exchange, u.pair, a2, Zero(u.store))
      ]_vars

\* C31: the snapshot stored by an upsert holds the pair and the display pair
\* that the caller supplied, and the pair passed to the upsert (its string for
\* the display pair) in the place of one the caller left unset.
C31_BackfillOnlyWhenUnset ==
    LookupAfterUpsert =>
        /\ ret.snap.Pair = IF Pair(lastUpsert.input.Pair) = ""
                           THEN lastUpsert.pair ELSE lastUpsert.input.Pair
        /\ ret.snap.CurrencyPair = IF lastUpsert.input.CurrencyPair = ""
                                   THEN Pair(lastUpsert.pair)
                                   ELSE lastUpsert.input.CurrencyPair

\* C28: an upsert for (exchange, pair, assetType) leaves the snapshots of
\* every other exchange and of every other pair of the same exchange
\* unchanged and retrievable: their lookups return no error and the same
\* snapshot as before the upsert, in any sequential order of calls.
C28_OtherPairsKept ==
    [][UpsertStep =>
        LET u == lastUpsert' IN
        \A e \in Exchanges, p \in Pairs, a \in AssetTypes :
            (/\ Key(u.store, e, p, a) \in DOMAIN written
             /\ e # u.exchange \/ p # u.pair) =>
                /\ Lookup(stores'[u.store], e, p, a, Zero(u.store)).err = NoError
                /\ Lookup(stores'[u.store], e, p, a, Zero(u.store))
                      = Lookup(stores[u.store], e, p, a, Zero(u.store))
      ]_vars

\* BTC/EUR was upserted after BTC/USD for the same exchange, and BTC/USD is
\* looked up as it was written
C28_Witness ==
    LET u == lastUpsert
        usd == NewCurrencyPair("BTC", "USD")
    IN  /\ calls.upsert = 2
        /\ u.op = "upsert"
        /\ u.pair = NewCurrencyPair("BTC", "EUR")
        /\ Key(u.store, u.exchange, usd, "SPOT") \in DOMAIN written
        /\ Lookup(stores[u.store], u.exchange, usd, "SPOT", Zero(u.store))
              = [err |-> NoError, snap |-> written[Key(u.store, u.exchange, usd, "SPOT")]]

\* a looked-up result without its time stamp
Unstamped(r) == [r EXCEPT !.snap.LastUpdated = 0]

\* C29: upserting the same snapshot for the same triple twice in a row leaves
\* the store lookup-equal, the time stamp aside, to upserting it once: the
\* second of the two upserts changes the lookup of no triple.
C29_UpsertIdempotent ==
    [][(UpsertStep /\ lastUpsert'.again) =>
        \A e \in Exchanges, p \in Pairs, a \in AssetTypes :
            LET s == lastUpsert'.store
            IN  Unstamped(Lookup(stores'[s], e, p, a, Zero(s)))
                  = Unstamped(Lookup(stores[s], e, p, a, Zero(s)))
      ]_vars

\* the same snapshot was upserted twice in a row for a triple, and is
\* looked up with the time of the second upsert
C29_Witness ==
    /\ calls.upsert = 2
    /\ lastUpsert.op = "upsert"
    /\ lastUpsert.again
    /\ LET u == lastUpsert
           r == Lookup(stores[u.store], u.exchange, u.pair, u.asset, Zero(u.store))
       IN  /\ r.err = NoError
           /\ Payload(u.store, r.snap) = Payload(u.store, u.input)
           /\ r.snap.LastUpdated = u.time

\* C30: the lookup of an asset type never upserted under an exchange and
\* pair that exist returns the zero-value snapshot and no error.
C30_MissingAssetTypeIsZero ==
    (/\ ret.op = "lookup"
     /\ \E a2 \in AssetTypes : Key(ret.store, ret.exchange, ret.pair, a2) \in DOMAIN written
     /\ Key(ret.store, ret.exchange, ret.pair, ret.asset) \notin DOMAIN written) =>
        /\ ret.err = NoError
        /\ ret.snap = Zero(ret.store)

\* SPOT was upserted for a pair, FUTURES never, and the lookup of FUTURES
\* returned the zero-value snapshot
C30_Witness ==
    /\ ret.op = "lookup"
    /\ ret.asset = "FUTURES"
    /\ Key(ret.store, ret.exchange, ret.pair, "SPOT") \in DOMAIN written
    /\ Key(ret.store, ret.exchange, ret.pair, "FUTURES") \notin DOMAIN written
    /\ ret.err = NoError
    /\ ret.snap = Zero(ret.store)

----------------------------------------------------------------------------
\* Connector tasks calling the stores concurrently.  A call is a sequence of
\* critical sections of the store mutex; a task takes the mutex in one step
\* (m.Lock()) and runs the section to its Unlock in the next.

MaxConcUpserts == 3
MaxConcLookups == 1

\* testWrappers of the wrapper-coverage tool calls every exchange with the
\* spot asset type
ConcExchanges == {"Bitmex"}
ConcAssets == {"SPOT"}

LockedSteps == {"byExchange", "first", "second", "create", "update", "new"}

Regs == stores[focus]
Held(t) == locks[focus] = t
Unlock == [locks EXCEPT ![focus] = NoTask]
Goto(t, pc) == [tasks EXCEPT ![t].pc = pc]
Return(t) == [tasks EXCEPT ![t] = IdleTask]
Returned(t, err, snap) ==
    [op |-> "lookup", store |-> focus, exchange |-> tasks[t].exchange,
     pair |-> tasks[t].pair, asset |-> tasks[t].asset, err |-> err, snap |-> snap]
KeyOf(t) == Key(focus, tasks[t].exchange, tasks[t].pair, tasks[t].asset)

\* ProcessTicker lines 152-159 (ProcessOrderbook 162-168): the call starts
BeginProcess(t, exchangeName, p, snap, a) ==
    /\ panicked = ""
    /\ tasks[t].pc = "idle"
    /\ calls.upsert < MaxConcUpserts
    /\ calls' = [calls EXCEPT !.upsert = @ + 1]
    /\ now' = now + 1
    /\ tasks' = [tasks EXCEPT ![t] =
            [pc |-> "byExchange", op |-> "process", exchange |-> exchangeName,
             pair |-> p, asset |-> a, snap |-> Normalise(snap, p, now), idx |-> 0]]
    /\ UNCHANGED <<stores, locks, panicked, lastUpsert, ret, written, focus>>
    /\ UNCHANGED <<engVars, cfgVars>>

\* GetTicker (GetOrderbook): the call starts
BeginGet(t, exchange, p, a) ==
    /\ panicked = ""
    /\ tasks[t].pc = "idle"
    /\ calls.lookup < MaxConcLookups
    /\ calls' = [calls EXCEPT !.lookup = @ + 1]
    /\ tasks' = [tasks EXCEPT ![t] =
            [pc |-> "byExchange", op |-> "get", exchange |-> exchange,
             pair |-> p, asset |-> a, snap |-> Zero(focus), idx |-> 0]]
    /\ UNCHANGED <<stores, locks, now, panicked, lastUpsert, ret, written, focus>>
    /\ UNCHANGED <<engVars, cfgVars>>

\* m.Lock() at the head of a critical section
Lock(t) ==
    /\ panicked = ""
    /\ tasks[t].pc \in LockedSteps
    /\ locks[focus] = NoTask
    /\ locks' = [locks EXCEPT ![focus] = t]
    /\ UNCHANGED <<stores, now, panicked, calls, lastUpsert, ret, tasks, written, focus>>
    /\ UNCHANGED <<engVars, cfgVars>>

\* GetTickerByExchange under the mutex; ProcessTicker goes on to create or to
\* the first-currency check, GetTicker returns the error or goes on
ByExchangeStep(t) ==
    LET idx == GetByExchange(Regs, tasks[t].exchange) IN
    /\ panicked = ""
    /\ tasks[t].pc = "byExchange"
    /\ Held(t)
    /\ locks' = Unlock
    /\ IF idx = 0 /\ tasks[t].op = "get"
       THEN /\ ret' = Returned(t, ErrExchangeNotFound, Zero(focus))
            /\ tasks' = Return(t)
       ELSE /\ tasks' = [tasks EXCEPT ![t].idx = idx,
                                      ![t].pc = IF idx = 0 THEN "create" ELSE "first"]
            /\ UNCHANGED ret
    /\ UNCHANGED <<stores, now, panicked, calls, lastUpsert, written, focus>>
    /\ UNCHANGED <<engVars, cfgVars>>

\* FirstCurrencyExists under the mutex
FirstStep(t) ==
    LET found == FirstCurrencyExists(Regs, tasks[t].exchange, tasks[t].pair.FirstCurrency) IN
    /\ panicked = ""
    /\ tasks[t].pc = "first"
    /\ Held(t)
    /\ locks' = Unlock
    /\ IF tasks[t].op = "get"
       THEN IF found
            THEN tasks' = Goto(t, "second") /\ UNCHANGED ret
            ELSE /\ ret' = Returned(t, ErrPrimaryCurrencyNotFound, Zero(focus))
                 /\ tasks' = Return(t)
       ELSE /\ tasks' = Goto(t, IF found THEN "update" ELSE "new")
            /\ UNCHANGED ret
    /\ UNCHANGED <<stores, now, panicked, calls, lastUpsert, written, focus>>
    /\ UNCHANGED <<engVars, cfgVars>>

\* SecondCurrencyExists under the mutex (GetTicker only)
SecondStep(t) ==
    LET found == SecondCurrencyExists(Regs, tasks[t].exchange, tasks[t].pair) IN
    /\ panicked = ""
    /\ tasks[t].pc = "second"
    /\ Held(t)
    /\ locks' = Unlock
    /\ IF found
       THEN tasks' = Goto(t, "read") /\ UNCHANGED ret
       ELSE /\ ret' = Returned(t, ErrSecondaryCurrencyNotFound, Zero(focus))
            /\ tasks' = Return(t)
    /\ UNCHANGED <<stores, now, panicked, calls, lastUpsert, written, focus>>
    /\ UNCHANGED <<engVars, cfgVars>>

\* CreateNewTicker under the mutex, then ProcessTicker returns
CreateStep(t) ==
    /\ panicked = ""
    /\ tasks[t].pc = "create"
    /\ Held(t)
    /\ stores' = [stores EXCEPT ![focus] =
            CreateNew(@, tasks[t].exchange, tasks[t].pair, tasks[t].snap, tasks[t].asset)]
    /\ written' = Put(written, KeyOf(t), tasks[t].snap)
    /\ locks' = Unlock
    /\ tasks' = Return(t)
    /\ UNCHANGED <<now, panicked, calls, lastUpsert, ret, focus>>
    /\ UNCHANGED <<engVars, cfgVars>>

\* ProcessTicker lines 168-173: the pair's map is replaced under the mutex; the
\* panic of the assignment leaves the mutex locked (the Unlock is not deferred)
UpdateStep(t) ==
    /\ panicked = ""
    /\ tasks[t].pc = "update"
    /\ Held(t)
    /\ IF UpdatePanics(Regs, tasks[t].idx, tasks[t].pair)
       THEN /\ panicked' = "assignment to entry in nil map"
            /\ tasks' = Goto(t, "panic")
            /\ UNCHANGED <<stores, written, locks>>
       ELSE /\ stores' = [stores EXCEPT ![focus] =
                    UpdatePair(@, tasks[t].idx, tasks[t].pair, tasks[t].snap, tasks[t].asset)]
            /\ written' = Put(written, KeyOf(t), tasks[t].snap)
            /\ locks' = Unlock
            /\ tasks' = Return(t)
            /\ UNCHANGED panicked
    /\ UNCHANGED <<now, calls, lastUpsert, ret, focus>>
    /\ UNCHANGED <<engVars, cfgVars>>

\* ProcessTicker lines 176-182: the first currency's map is set under the mutex
NewStep(t) ==
    /\ panicked = ""
    /\ tasks[t].pc = "new"
    /\ Held(t)
    /\ stores' = [stores EXCEPT ![focus] =
            NewFirst(@, tasks[t].idx, tasks[t].pair, tasks[t].snap, tasks[t].asset)]
    /\ written' = Put(written, KeyOf(t), tasks[t].snap)
    /\ locks' = Unlock
    /\ tasks' = Return(t)
    /\ UNCHANGED <<now, panicked, calls, lastUpsert, ret, focus>>
    /\ UNCHANGED <<engVars, cfgVars>>

\* another task is inside the critical section that writes a map the read of
\* task t goes through: the outer map of the same registration (lines 176-182)
\* or the map of the same first currency (lines 168-172)
Racing(t, u) ==
    /\ u # t
    /\ Held(u)
    /\ tasks[u].idx = tasks[t].idx
    /\ \/ tasks[u].pc = "new"
       \/ /\ tasks[u].pc = "update"
          /\ tasks[u].pair.FirstCurrency = tasks[t].pair.FirstCurrency

\* GetTicker line 87: the snapshot is read without the mutex.  Alone, the read
\* returns what the maps hold.  Racing with a write it is a data race: the Go
\* runtime may stop the process, or the read sees the maps before the write,
\* after it, or misses the entry.
ReadStep(t) ==
    LET here == ReadSnapshot(Regs, tasks[t].idx, tasks[t].pair, tasks[t].asset, Zero(focus)) IN
    /\ panicked = ""
    /\ tasks[t].pc = "read"
    /\ \/ /\ ret' = Returned(t, NoError, here)
          /\ tasks' = Return(t)
          /\ UNCHANGED panicked
       \/ /\ \E u \in Tasks : Racing(t, u)
          /\ panicked' = "concurrent map read and map write"
          /\ tasks' = Goto(t, "panic")
          /\ UNCHANGED ret
       \/ \E u \in Tasks :
            /\ Racing(t, u)
            /\ \E seen \in {Zero(focus),
                            IF tasks[u].pc = "update" /\ tasks[u].pair = tasks[t].pair
                               /\ tasks[u].asset = tasks[t].asset
                            THEN tasks[u].snap ELSE Zero(focus)} :
                    ret' = Returned(t, NoError, seen)
            /\ tasks' = Return(t)
            /\ UNCHANGED panicked
    /\ UNCHANGED <<stores, locks, now, calls, lastUpsert, written, focus>>
    /\ UNCHANGED <<engVars, cfgVars>>

ConcNext ==
    \E t \in Tasks :
        \/ \E e \in ConcExchanges, p \in Pairs, a \in ConcAssets :
                \E snap \in Inputs(focus, p) : BeginProcess(t, e, p, snap, a)
        \/ \E e \in ConcExchanges, p \in Pairs, a \in ConcAssets : BeginGet(t, e, p, a)
        \/ Lock(t)
        \/ ByExchangeStep(t)
        \/ FirstStep(t)
        \/ SecondStep(t)
        \/ CreateStep(t)
        \/ UpdateStep(t)
        \/ NewStep(t)
        \/ ReadStep(t)

SpecConc == StoreInit /\ [][ConcNext]_vars

----------------------------------------------------------------------------
\* Claims on the concurrent use of the stores

\* every call that was started has returned, and the process runs
Quiescent == panicked = "" /\ \A t \in Tasks : tasks[t].pc = "idle"

\* what a lookup of the triple of key k returns in the current state
LookupKey(k) ==
    Lookup(stores[k[1]], k[2], NewCurrencyPair(k[3], k[4]), k[5], Zero(k[1]))

\* the upserts so far were for pairwise distinct triples and have all written
DistinctUpserts == Cardinality(DOMAIN written) = calls.upsert

\* C3: when tasks concurrently upsert pairwise distinct triples, then after all
\* upserts have returned the lookup of each of the triples returns no error and
\* the snapshot that was upserted for it.
C3_NoLostUpdate ==
    (Quiescent /\ DistinctUpserts) =>
        \A k \in DOMAIN written :
            LookupKey(k) = [err |-> NoError, snap |-> written[k]]

\* the error a lookup of (s, exchange, p) must report by what has been upserted
UpsertedKeys(s, exchange) == {k \in DOMAIN written : k[1] = s /\ k[2] = exchange}
ExpectedError(s, exchange, p) ==
    LET ks == UpsertedKeys(s, exchange) IN
    IF ks = {} THEN ErrExchangeNotFound
    ELSE IF \A k \in ks : k[3] # p.FirstCurrency THEN ErrPrimaryCurrencyNotFound
    ELSE IF \A k \in ks : ~(k[3] = p.FirstCurrency /\ k[4] = p.SecondCurrency)
    THEN ErrSecondaryCurrencyNotFound
    ELSE NoError

\* C6: a lookup fails with the exchange-not-found error iff nothing was upserted
\* for the exchange, with the primary-currency error iff the exchange is known
\* and the base currency was never upserted for it, with the secondary-currency
\* error iff exchange and base are known and the quote currency was never
\* upserted under that base, and returns no error otherwise.
C6_ErrorPrecedence ==
    Quiescent =>
        \A s \in StoreNames, e \in Exchanges, p \in Pairs, a \in AssetTypes :
            Lookup(stores[s], e, p, a, Zero(s)).err = ExpectedError(s, e, p)

\* C7: after two or more upserts of one triple, sequential or racing, the
\* lookup returns the snapshot of the upsert that took the store mutex last.
C7_LastLockHolderWins ==
    (Quiescent /\ calls.upsert >= 2 /\ Cardinality(DOMAIN written) = 1) =>
        \A k \in DOMAIN written :
            LookupKey(k) = [err |-> NoError, snap |-> written[k]]

\* C8: no upsert ends in a runtime panic.
C8_UpsertNeverPanics == panicked # "assignment to entry in nil map"

\* C9: the store mutex is held only by a call that is inside one of its
\* critical sections: never by a call that has ended.
C9_LockHeldByRunningCall ==
    \A t \in Tasks : locks[focus] = t => tasks[t].pc \in LockedSteps

\* C10: every step of a call that reads or writes the nested maps of a store is
\* taken while the call holds the mutex of that store.
MapSteps == LockedSteps \cup {"read"}
C10_MapAccessUnderLock ==
    [][\A t \in Tasks :
            (tasks[t].pc \in MapSteps /\ tasks'[t] # tasks[t]) => locks[focus] = t
      ]_vars

\* C11: in every reachable state a store holds at most one registration per
\* exchange name, also when several upserts for the same unseen exchange run
\* concurrently.
C11_OneRegistrationPerExchange ==
    \A s \in StoreNames : \A i, j \in 1..Len(stores[s]) :
        stores[s][i].ExchangeName = stores[s][j].ExchangeName => i = j

----------------------------------------------------------------------------
\* Package events: the registry, validation, condition evaluation

ItemPrice == "PRICE"
ItemOrderbook == "ORDERBOOK"
ConditionGreaterThan == ">"
ConditionGreaterThanOrEqual == ">="
ConditionLessThan == "<"
ConditionLessThanOrEqual == "<="
ConditionIsEqual == "=="
ActionSMSNotify == "SMS"
ActionConsolePrint == "CONSOLE_PRINT"
ActionTest == "ACTION_TEST"

errInvalidItem == "invalid item"
errInvalidCondition == "invalid conditional option"
errInvalidAction == "invalid action"
errExchangeDisabled == "desired exchange is disabled"

\* common.StringToUpper / common.StringToLower on the strings that occur
StringToUpper(str) ==
    CASE str = "price" -> "PRICE"
      [] str = "orderbook" -> "ORDERBOOK"
      [] str = "Bitmex" -> "BITMEX"
      [] str = "Exmo" -> "EXMO"
      [] str = "Kraken" -> "KRAKEN"
      [] str = "action_test" -> "ACTION_TEST"
      [] str = "sms,all" -> "SMS,ALL"
      [] str = "SMS,bob" -> "SMS,BOB"
      [] str = "btc" -> "BTC"
      [] str = "ltc" -> "LTC"
      [] OTHER -> str
StringToLower(str) ==
    CASE str \in {"Bitmex", "BITMEX"} -> "bitmex"
      [] str \in {"Exmo", "EXMO"} -> "exmo"
      [] str \in {"Kraken", "KRAKEN"} -> "kraken"
      [] OTHER -> str

\* common.StringContains(str, ",") and common.SplitStrings(str, ",")
Compound == {"SMS,ALL", "sms,all", "SMS,bob", "SMS,BOB", "EMAIL,ALL"}
StringContains(str, sub) == sub = "," /\ str \in Compound
SplitStrings(str, sep) ==
    CASE str = "SMS,ALL" -> <<"SMS", "ALL">>
      [] str = "sms,all" -> <<"sms", "all">>
      [] str = "SMS,bob" -> <<"SMS", "bob">>
      [] str = "SMS,BOB" -> <<"SMS", "BOB">>
      [] str = "EMAIL,ALL" -> <<"EMAIL", "ALL">>
      [] OTHER -> <<str>>

\* config.GetConfig().Exchanges
ConfigExchanges == <<[Name |-> "Bitmex", Enabled |-> TRUE], [Name |-> "Exmo", Enabled |-> FALSE]>>

ConditionParams(cond, price, checkBids, checkBidsAndAsks, amount) ==
    [Condition |-> cond, Price |-> price, CheckBids |-> checkBids,
     CheckBidsAndAsks |-> checkBidsAndAsks, OrderbookAmount |-> amount]

IsValidExchange(Exchange) ==
    \E x \in 1..Len(ConfigExchanges) :
        /\ StringToLower(ConfigExchanges[x].Name) = StringToLower(Exchange)
        /\ ConfigExchanges[x].Enabled

IsValidConditionAny(Condition) == TRUE
IsValidCondition(Condition) ==
    Condition \in {ConditionGreaterThan, ConditionGreaterThanOrEqual, ConditionLessThan,
                   ConditionLessThanOrEqual, ConditionIsEqual}

IsValidAction(Action) ==
    StringToUpper(Action) \in {ActionSMSNotify, ActionConsolePrint, ActionTest}

IsValidItem(Item_) == StringToUpper(Item_) \in {ItemPrice, ItemOrderbook}

\* IsValidEvent: the error returned ("" for nil) and the number of PushEvent
\* calls it made on the way
IsValidEvent(Exchange, Item_, Condition, Action) ==
    LET ex == StringToUpper(Exchange)
        it == StringToUpper(Item_)
        ac == StringToUpper(Action)
        parts == SplitStrings(ac, ",")
        result(err, probed) == [err |-> err, probed |-> probed]
    IN  IF ~IsValidExchange(ex) THEN result(errExchangeDisabled, 0)
        ELSE IF ~IsValidItem(it) THEN result(errInvalidItem, 0)
        ELSE IF ~IsValidCondition(Condition.Condition) THEN result(errInvalidCondition, 0)
        ELSE IF it = ItemPrice /\ Condition.Price = 0 THEN result(errInvalidCondition, 0)
        ELSE IF it = ItemOrderbook /\ Condition.OrderbookAmount = 0
             THEN result(errInvalidAction, 0)
        ELSE IF StringContains(ac, ",")
             THEN IF parts[1] # ActionSMSNotify THEN result(errInvalidAction, 0)
                  ELSE IF parts[2] # "ALL" THEN result(NoError, 1)
                  ELSE result(NoError, 0)
        ELSE IF ac # ActionConsolePrint /\ ac # ActionTest THEN result(errInvalidAction, 0)
        ELSE result(NoError, 0)

\* What one evaluation did: its result, the number of ExecuteAction calls,
\* of notifications pushed and of log lines "Event triggered"
Effects(ok, fired, pushed, logged) ==
    [ok |-> ok, fired |-> fired, pushed |-> pushed, logged |-> logged]
NoEffects == Effects(FALSE, 0, 0, 0)
Both(f, g) == Effects(f.ok \/ g.ok, f.fired + g.fired, f.pushed + g.pushed,
                      f.logged + g.logged)

\* a dispatch whose result would be false whenever a notification is pushed
ExecuteActionReportingPush(e) ==
    IF StringContains(e.Action, ",")
    THEN Effects(FALSE, 1, 1, 0)
    ELSE Effects(TRUE, 1, 0, 1)

ExecuteAction(e) ==
    IF StringContains(e.Action, ",")
    THEN LET action == SplitStrings(e.Action, ",")
         IN  IF action[1] = ActionSMSNotify /\ action[2] = "ALL"
             THEN Effects(TRUE, 1, 1, 0)
             ELSE Effects(TRUE, 1, 0, 0)
    ELSE Effects(TRUE, 1, 0, 1)

processConditionStrict(e, actual, threshold) ==
    IF (e.Condition.Condition \in {">", ">="} /\ actual > threshold)
       \/ (e.Condition.Condition \in {"<", "<="} /\ actual < threshold)
    THEN [ok |-> TRUE, fired |-> 1, pushed |-> 0, logged |-> 1]
    ELSE [ok |-> FALSE, fired |-> 0, pushed |-> 0, logged |-> 0]

processCondition(e, actual, threshold) ==
    LET c == e.Condition.Condition
    IN  IF \/ c = ConditionGreaterThan /\ actual > threshold
           \/ c = ConditionGreaterThanOrEqual /\ actual >= threshold
           \/ c = ConditionLessThan /\ actual < threshold
           \/ c = ConditionLessThanOrEqual /\ actual <= threshold
           \/ c = ConditionIsEqual /\ actual = threshold
        THEN ExecuteAction(e)
        ELSE NoEffects

\* the comparison made without the guard on a last price of zero
processTickerWithZero(e) ==
    LET r == GetTicker(e.Exchange, e.Pair, e.Asset)
    IN  IF r.err # NoError THEN NoEffects
        ELSE processCondition(e, r.snap.Last, e.Condition.Price)

processTicker(e) ==
    LET r == GetTicker(e.Exchange, e.Pair, e.Asset)
    IN  IF r.err # NoError THEN NoEffects
        ELSE IF r.snap.Last = 0 THEN NoEffects
        ELSE processCondition(e, r.snap.Last, e.Condition.Price)

\* the notional of a whole side
RECURSIVE Notional(_)
Notional(levels) ==
    IF levels = <<>> THEN 0
    ELSE Head(levels).Amount * Head(levels).Price + Notional(Tail(levels))

\* a comparison of the summed notional of the side, which the code never makes
processLevelsSummed(e, levels) ==
    IF levels = <<>> THEN NoEffects
    ELSE processCondition(e, Notional(levels), e.Condition.OrderbookAmount)

\* the loop over one side of the book
RECURSIVE processLevels(_, _)
processLevels(e, levels) ==
    IF levels = <<>> THEN NoEffects
    ELSE Both(processCondition(e, Head(levels).Amount * Head(levels).Price,
                               e.Condition.OrderbookAmount),
              processLevels(e, Tail(levels)))

AsksSelectedWithBoth(c) == c.CheckBidsAndAsks
\* the conditions of the two loops of processOrderbook
BidsSelected(c) == c.CheckBids \/ c.CheckBidsAndAsks
AsksSelected(c) == ~c.CheckBids \/ c.CheckBidsAndAsks

processOrderbook(e) ==
    LET r == GetOrderbook(e.Exchange, e.Pair, e.Asset)
        bids == IF BidsSelected(e.Condition)
                THEN processLevels(e, r.snap.Bids) ELSE NoEffects
        asks == IF AsksSelected(e.Condition)
                THEN processLevels(e, r.snap.Asks) ELSE NoEffects
    IN  IF r.err # NoError THEN NoEffects ELSE Both(bids, asks)

CheckCondition(e) ==
    IF e.Item = ItemPrice THEN processTicker(e) ELSE processOrderbook(e)

----------------------------------------------------------------------------
\* The registry slice and the EventManger loop

MaxCalls == 3
MaxTicks == 2

Nil == 0
\* successful Add calls, Remove calls and connector upserts made so far
EngCalls == Len(heap) + calls.remove + calls.upsert
BTCUSD == NewCurrencyPair("BTC", "USD")

\* The Add calls made on the registry
Request(exchange, item, condition, action) ==
    [Exchange |-> exchange, Item |-> item, Condition |-> condition, Pair |-> BTCUSD,
     Asset |-> "SPOT", Action |-> action]
Requests ==
    { Request("Bitmex", "PRICE", ConditionParams(">=", 2, FALSE, FALSE, 0), "CONSOLE_PRINT"),
      Request("Bitmex", "ORDERBOOK", ConditionParams(">=", 0, TRUE, FALSE, 50), "SMS,ALL"),
      Request("Bitmex", "price", ConditionParams("<", 2, FALSE, FALSE, 20), "ACTION_TEST"),
      Request("Bitmex", "PRICE", ConditionParams("<", 2, FALSE, FALSE, 0), "SMS,bob"),
      Request("Exmo", "PRICE", ConditionParams(">=", 2, FALSE, FALSE, 0), "CONSOLE_PRINT"),
      Request("Bitmex", "VOLUME", ConditionParams(">=", 2, FALSE, FALSE, 0), "CONSOLE_PRINT"),
      Request("Bitmex", "PRICE", ConditionParams("<>", 2, FALSE, FALSE, 0), "CONSOLE_PRINT"),
      Request("Bitmex", "PRICE", ConditionParams(">=", 0, FALSE, FALSE, 0), "CONSOLE_PRINT"),
      Request("Bitmex", "ORDERBOOK", ConditionParams(">=", 2, TRUE, FALSE, 0), "CONSOLE_PRINT"),
      Request("Bitmex", "PRICE", ConditionParams(">=", 2, FALSE, FALSE, 0), "EMAIL") }

\* The snapshots the connector upserts for Bitmex BTCUSD SPOT
Feeds(s) ==
    Inputs(s, BTCUSD) \cup
        (IF s = "ticker" THEN {[ZeroPrice EXCEPT !.Pair = BTCUSD]} ELSE {})

appendNothing(sl, ptr) == sl
\* append(slice, ptr): in place while the capacity lasts, else into a new
\* backing array of twice the capacity
NewCap(cap) == IF cap = 0 THEN 1 ELSE 2 * cap
append(sl, ptr) ==
    IF sl.len < Len(sl.arr)
    THEN [sl EXCEPT !.arr[sl.len + 1] = ptr, !.len = @ + 1]
    ELSE [arr |-> [k \in 1..NewCap(Len(sl.arr)) |->
                      IF k <= sl.len THEN sl.arr[k]
                      ELSE IF k = sl.len + 1 THEN ptr ELSE Nil],
          len |-> sl.len + 1,
          gen |-> sl.gen + 1]

CutNothing(sl, i) == sl
\* append(Events[:i], Events[i+1:]...): the tail moves down one place in the
\* same backing array, whose last used slot keeps its old pointer
Cut(sl, i) ==
    [sl EXCEPT !.arr = [k \in 1..Len(sl.arr) |->
                           IF k >= i /\ k < sl.len THEN sl.arr[k + 1] ELSE sl.arr[k]],
               !.len = @ - 1]

\* the Events of the registry, in order
Registry == [k \in 1..Events.len |-> heap[Events.arr[k]]]

NewTrail == [checks |-> 0, fired |-> 0, skips |-> 0, sat |-> FALSE]

\* The condition of an Event of a recognized kind, on the stores as they are
Holds(cond, actual, threshold) ==
    CASE cond = ">" -> actual > threshold
      [] cond = ">=" -> actual >= threshold
      [] cond = "<" -> actual < threshold
      [] cond = "<=" -> actual <= threshold
      [] cond = "==" -> actual = threshold
      [] OTHER -> FALSE
Satisfied(e) ==
    CASE e.Item = "PRICE" ->
            LET r == GetTicker(e.Exchange, e.Pair, e.Asset)
            IN  r.err = NoError /\ r.snap.Last # 0
                /\ Holds(e.Condition.Condition, r.snap.Last, e.Condition.Price)
      [] e.Item = "ORDERBOOK" ->
            LET r == GetOrderbook(e.Exchange, e.Pair, e.Asset)
                side(on, levels) ==
                    on /\ \E x \in 1..Len(levels) :
                            Holds(e.Condition.Condition, levels[x].Amount * levels[x].Price,
                                  e.Condition.OrderbookAmount)
            IN  r.err = NoError
                /\ \/ side(e.Condition.CheckBids \/ e.Condition.CheckBidsAndAsks, r.snap.Bids)
                   \/ side(~e.Condition.CheckBids \/ e.Condition.CheckBidsAndAsks, r.snap.Asks)
      [] OTHER -> FALSE

EngInit == StoreInit /\ focus = "ticker"

NextIDZero(len) == 0
\* the ID given to a new Event, from len(Events)
NextID(len) == IF len = 0 THEN 0 ELSE len + 1

RejectedNever(v) == FALSE
\* if err != nil
Rejected(v) == v.err # NoError

\* Add(Exchange, Item, Condition, CurrencyPair, Asset, Action)
Add(r) ==
    LET v == IsValidEvent(r.Exchange, r.Item, r.Condition, r.Action)
        ID == NextID(Events.len)
        Event == [ID |-> ID, Exchange |-> r.Exchange, Item |-> r.Item,
                  Condition |-> r.Condition, Pair |-> r.Pair, Asset |-> r.Asset,
                  Action |-> r.Action, Executed |-> FALSE]
        grown == append(Events, Len(heap) + 1)
    IN  /\ comms' = [comms EXCEPT !.probed = @ + v.probed]
        /\ IF Rejected(v)
           THEN /\ ret' = [op |-> "add", req |-> r, id |-> 0, err |-> v.err]
                /\ UNCHANGED <<heap, Events, mgr, trail>>
           ELSE /\ heap' = Append(heap, Event)
                /\ trail' = Append(trail, NewTrail)
                /\ Events' = grown
                \* a scan under way keeps ranging over the array it started on
                /\ mgr' = IF mgr.pc = "scan" /\ mgr.gen = Events.gen /\ grown.gen # Events.gen
                          THEN [mgr EXCEPT !.old = Events.arr]
                          ELSE mgr
                /\ ret' = [op |-> "add", req |-> r, id |-> ID, err |-> v.err]
        /\ UNCHANGED <<stores, locks, now, panicked, calls, lastUpsert, tasks, written, focus>>
        /\ UNCHANGED cfgVars

\* Remove(EventID)
Remove(EventID) ==
    LET hits == {i \in 1..Events.len : heap[Events.arr[i]].ID = EventID}
        first == CHOOSE i \in hits : \A j \in hits : i <= j
    IN  /\ calls' = [calls EXCEPT !.remove = @ + 1]
        /\ Events' = IF hits = {} THEN Events ELSE Cut(Events, first)
        /\ ret' = [op |-> "remove", id |-> EventID, ok |-> hits # {}]
        /\ UNCHANGED <<stores, locks, now, panicked, lastUpsert, tasks, written, focus>>
        /\ UNCHANGED cfgVars
        /\ UNCHANGED <<heap, mgr, trail, comms>>

\* A connector's ProcessTicker / ProcessOrderbook for Bitmex BTCUSD SPOT
Feed(s, snap) ==
    /\ calls' = [calls EXCEPT !.upsert = @ + 1]
    /\ stores' = [stores EXCEPT ![s] =
                    Process(stores[s], "Bitmex", BTCUSD, Normalise(snap, BTCUSD, now), "SPOT").regs]
    /\ now' = now + 1
    /\ ret' = NoCall
    /\ UNCHANGED <<locks, panicked, lastUpsert, tasks, written, focus>>
    /\ UNCHANGED <<engVars, cfgVars>>

\* GetEventCounter()
GetEventCounter ==
    [total |-> Events.len,
     executed |-> Cardinality({k \in 1..Events.len : Registry[k].Executed})]

MgrAsleep(tick) == [pc |-> "sleep", tick |-> tick, i |-> 0, len |-> 0, gen |-> 0, old |-> <<>>]

\* the array the running scan ranges over, and the Event struct it is at
ScanArray == IF mgr.gen = Events.gen THEN Events.arr ELSE mgr.old
ScanAt == ScanArray[mgr.i]

PendingAlways(e) == TRUE
\* if !event.Executed
Pending(e) == ~e.Executed

\* EventManger, top of the for loop: count, and start ranging over Events or
\* go to sleep
ManagerTick ==
    /\ mgr.pc = "sleep"
    /\ mgr.tick < MaxTicks
    /\ mgr' = IF GetEventCounter.total > 0 /\ GetEventCounter.executed # GetEventCounter.total
              THEN [pc |-> "scan", tick |-> mgr.tick, i |-> 1, len |-> Events.len,
                    gen |-> Events.gen, old |-> <<>>]
              ELSE MgrAsleep(mgr.tick + 1)
    /\ ret' = NoCall
    /\ UNCHANGED <<stores, locks, now, panicked, calls, lastUpsert, tasks, written, focus>>
    /\ UNCHANGED cfgVars
    /\ UNCHANGED <<heap, Events, trail, comms>>

TriggeredAlways(e, success) == [e EXCEPT !.Executed = TRUE]
\* if success { event.Executed = true }
Triggered(e, success) == IF success THEN [e EXCEPT !.Executed = TRUE] ELSE e

\* EventManger, one iteration of the range loop; after the last one, Sleep
ManagerStep ==
    LET o == ScanAt
        r == CheckCondition(heap[o])
    IN  /\ mgr.pc = "scan"
        /\ IF Pending(heap[o])
           THEN /\ heap' = [heap EXCEPT ![o] = Triggered(@, r.ok)]
                /\ trail' = [trail EXCEPT ![o].checks = @ + 1,
                                          ![o].fired = @ + r.fired,
                                          ![o].sat = @ \/ Satisfied(heap[o])]
                \* PushEvent returns nothing: the collaborator delivers or not
                /\ \E sent \in 0..r.pushed :
                      comms' = [comms EXCEPT !.pushed = @ + r.pushed,
                                             !.logged = @ + r.logged,
                                             !.delivered = @ + sent]
           ELSE /\ trail' = [trail EXCEPT ![o].skips = @ + 1]
                /\ UNCHANGED <<heap, comms>>
        /\ mgr' = IF mgr.i < mgr.len THEN [mgr EXCEPT !.i = @ + 1]
                  ELSE MgrAsleep(mgr.tick + 1)
        /\ ret' = NoCall
        /\ UNCHANGED <<stores, locks, now, panicked, calls, lastUpsert, tasks, written, focus>>
        /\ UNCHANGED cfgVars
        /\ UNCHANGED Events

\* the Add calls made while the manager runs: the accepted ones and a rejected one
EngRequests ==
    {r \in Requests :
        IsValidEvent(r.Exchange, r.Item, r.Condition, r.Action).err
            \in {NoError, errExchangeDisabled}}

AddAny == EngCalls < MaxCalls /\ \E r \in EngRequests : Add(r)
RemoveAny == EngCalls < MaxCalls /\ \E EventID \in 0..MaxCalls : Remove(EventID)
FeedAny == EngCalls < MaxCalls /\ \E s \in StoreNames : \E snap \in Feeds(s) : Feed(s, snap)

EngNext == AddAny \/ RemoveAny \/ FeedAny \/ ManagerTick \/ ManagerStep

SpecEng == EngInit /\ [][EngNext]_vars

\* The registry used alone: Add and Remove calls, the manager asleep
MaxRegCalls == 5

RegAdd == EngCalls < MaxRegCalls /\ \E r \in Requests : Add(r)
RegRemove == EngCalls < MaxRegCalls /\ \E EventID \in 0..(MaxRegCalls + 1) : Remove(EventID)

RegNext == RegAdd \/ RegRemove

SpecReg == EngInit /\ [][RegNext]_vars

\* Add and Remove called from two goroutines.  The package has no lock: a
\* call is a sequence of reads and writes of the variable Events, and the
\* calls interleave between them.
MaxRaceCalls == 3

RaceCalls == Len(heap) + calls.remove

\* the backing array a slice header read earlier points to, as it is now
Backing(seen) == IF seen.gen = Events.gen THEN Events.arr ELSE seen.arr

\* Add lines 87-106: validation, the new Event, its ID from len(Events)
RaceAddBegin(t, r) ==
    LET v == IsValidEvent(r.Exchange, r.Item, r.Condition, r.Action)
        ID == NextID(Events.len)
        Event == [ID |-> ID, Exchange |-> r.Exchange, Item |-> r.Item,
                  Condition |-> r.Condition, Pair |-> r.Pair, Asset |-> r.Asset,
                  Action |-> r.Action, Executed |-> FALSE]
    IN  /\ tasks[t] = IdleTask
        /\ panicked = ""
        /\ comms' = [comms EXCEPT !.probed = @ + v.probed]
        /\ IF Rejected(v)
           THEN /\ ret' = [op |-> "add", req |-> r, id |-> 0, err |-> v.err]
                /\ UNCHANGED <<heap, trail, tasks>>
           ELSE /\ heap' = Append(heap, Event)
                /\ trail' = Append(trail, NewTrail)
                /\ tasks' = [tasks EXCEPT ![t] = [pc |-> "load", ptr |-> Len(heap) + 1]]
                /\ ret' = NoCall
        /\ UNCHANGED <<stores, locks, now, panicked, calls, lastUpsert, written, focus>>
        /\ UNCHANGED cfgVars
        /\ UNCHANGED <<Events, mgr>>

\* Add line 107, the argument of append: the slice header of Events is read
RaceAddLoad(t) ==
    /\ tasks[t].pc = "load"
    /\ tasks' = [tasks EXCEPT ![t] = [pc |-> "store", ptr |-> tasks[t].ptr, seen |-> Events]]
    /\ ret' = NoCall
    /\ UNCHANGED <<stores, locks, now, panicked, calls, lastUpsert, written, focus>>
    /\ UNCHANGED <<engVars, cfgVars>>

\* Add lines 107-108: append writes the pointer after the elements it read
\* of, in place or in a new array, and the result is assigned to Events
RaceAddStore(t) ==
    LET seen == tasks[t].seen
        grown == append([seen EXCEPT !.arr = Backing(seen)], tasks[t].ptr)
    IN  /\ tasks[t].pc = "store"
        /\ Events' = IF grown.gen = seen.gen THEN grown
                      ELSE [grown EXCEPT !.gen = MaxRaceCalls + tasks[t].ptr]
        /\ tasks' = [tasks EXCEPT ![t] = IdleTask]
        /\ ret' = [op |-> "add", id |-> heap[tasks[t].ptr].ID, err |-> NoError]
        /\ UNCHANGED <<stores, locks, now, panicked, calls, lastUpsert, written, focus>>
        /\ UNCHANGED cfgVars
        /\ UNCHANGED <<heap, mgr, trail, comms>>

\* Remove lines 113-114: the range loop over Events looks for the ID
RaceRemoveFind(t, EventID) ==
    LET hits == {i \in 1..Events.len : heap[Events.arr[i]].ID = EventID}
        first == CHOOSE i \in hits : \A j \in hits : i <= j
    IN  /\ tasks[t] = IdleTask
        /\ panicked = ""
        /\ calls' = [calls EXCEPT !.remove = @ + 1]
        /\ IF hits = {}
           THEN /\ ret' = [op |-> "remove", id |-> EventID, ok |-> FALSE]
                /\ UNCHANGED tasks
           ELSE /\ tasks' = [tasks EXCEPT ![t] = [pc |-> "cut", id |-> EventID, at |-> first]]
                /\ ret' = NoCall
        /\ UNCHANGED <<stores, locks, now, panicked, lastUpsert, written, focus>>
        /\ UNCHANGED <<engVars, cfgVars>>

\* Remove lines 115-116: Events[:i] and Events[i+1:] are taken of Events as
\* it is now (a run-time panic if it has become too short) and joined
RaceRemoveCut(t) ==
    /\ tasks[t].pc = "cut"
    /\ tasks' = [tasks EXCEPT ![t] = IdleTask]
    /\ IF tasks[t].at > Events.len
       THEN /\ panicked' = "slice bounds out of range"
            /\ ret' = NoCall
            /\ UNCHANGED Events
       ELSE /\ Events' = Cut(Events, tasks[t].at)
            /\ ret' = [op |-> "remove", id |-> tasks[t].id, ok |-> TRUE]
            /\ UNCHANGED panicked
    /\ UNCHANGED <<stores, locks, now, calls, lastUpsert, written, focus>>
    /\ UNCHANGED cfgVars
    /\ UNCHANGED <<heap, mgr, trail, comms>>

RaceAdd ==
    RaceCalls < MaxRaceCalls /\ \E t \in Tasks : \E r \in EngRequests : RaceAddBegin(t, r)
RaceRemove ==
    RaceCalls < MaxRaceCalls /\ \E t \in Tasks : \E EventID \in 0..MaxRaceCalls :
        RaceRemoveFind(t, EventID)
RaceStep ==
    \E t \in Tasks : RaceAddLoad(t) \/ RaceAddStore(t) \/ RaceRemoveCut(t)

RaceNext == RaceAdd \/ RaceRemove \/ RaceStep

SpecRace == EngInit /\ [][RaceNext]_vars

\* The engine loop scheduled fairly, next to the calls of a connector and of
\* the users of the registry: price watches on the last price of Bitmex BTCUSD
MaxLiveCalls == 5

LiveRequest == Request("Bitmex", "PRICE", ConditionParams(">=", 2, FALSE, FALSE, 0),
                       "CONSOLE_PRINT")

LiveAdd == EngCalls < MaxLiveCalls /\ Add(LiveRequest)
LiveRemove == EngCalls < MaxLiveCalls /\ \E EventID \in {0, 2} : Remove(EventID)
LiveFeed ==
    /\ EngCalls < MaxLiveCalls
    /\ calls.upsert < 1
    /\ \E snap \in Inputs("ticker", BTCUSD) : Feed("ticker", snap)

LiveNext == LiveAdd \/ LiveRemove \/ LiveFeed \/ ManagerTick \/ ManagerStep

\* go EventManger(): the goroutine of the loop is never starved
SpecLive ==
    /\ EngInit
    /\ [][LiveNext]_vars
    /\ WF_vars(ManagerTick)
    /\ WF_vars(ManagerStep)

----------------------------------------------------------------------------
\* exchange.Base.UpdatePairs and the configuration

MaxProducts == 1

errProductsEmpty == "UpdatePairs error - exchangeProducts is empty"
ErrExchangeNotInConfig == "Exchange not found in config"

\* common.JoinStrings(input, ",")
RECURSIVE JoinStrings(_, _)
JoinStrings(input, sep) ==
    IF input = <<>> THEN ""
    ELSE IF Len(input) = 1 THEN input[1]
    ELSE input[1] \o sep \o JoinStrings(Tail(input), sep)

\* the elements of a list
Elements(list) == {list[x] : x \in 1..Len(list)}

\* pair.FindPairDifferences(oldPairs, newPairs): the new ones and the removed ones
FindPairDifferences(oldPairs, newPairs) ==
    [new |-> SelectSeq(newPairs, LAMBDA s : s # "" /\ s \notin Elements(oldPairs)),
     removed |-> SelectSeq(oldPairs, LAMBDA s : s # "" /\ s \notin Elements(newPairs))]

\* an exchange is found in the configuration whatever its name
GetExchangeConfigAny(c, name) ==
    [err |-> NoError,
     exch |-> IF name \in DOMAIN c THEN c[name] ELSE [Enabled |-> "", Available |-> ""]]

\* cfg.GetExchangeConfig(name)
GetExchangeConfig(c, name) ==
    IF name \in DOMAIN c THEN [err |-> NoError, exch |-> c[name]]
    ELSE [err |-> ErrExchangeNotInConfig, exch |-> [Enabled |-> "", Available |-> ""]]

\* cfg.UpdateExchangeConfig(exch)
UpdateExchangeConfig(c, name, exch) ==
    IF name \in DOMAIN c THEN [err |-> NoError, cfg |-> [c EXCEPT ![name] = exch]]
    ELSE [err |-> ErrExchangeNotInConfig, cfg |-> c]

\* the product names given to UpdatePairs (none holds a comma): upper case
\* after the join and the split, the empty ones dropped
CleanProducts(exchangeProducts) ==
    SelectSeq([x \in 1..Len(exchangeProducts) |-> StringToUpper(exchangeProducts[x])],
              LAMBDA s : s # "")

\* e.UpdatePairs(exchangeProducts, enabled, force): the error returned, the
\* Base and the configuration after the call
UpdatePairs(e, c, exchangeProducts, enabled, force) ==
    LET products == CleanProducts(exchangeProducts)
        diff == IF enabled THEN FindPairDifferences(e.Enabled, products)
                ELSE FindPairDifferences(e.Available, products)
        got == GetExchangeConfig(c, e.Name)
        exch == IF enabled THEN [got.exch EXCEPT !.Enabled = JoinStrings(products, ",")]
                ELSE [got.exch EXCEPT !.Available = JoinStrings(products, ",")]
        put == UpdateExchangeConfig(c, e.Name, exch)
    IN  IF Len(exchangeProducts) = 0
        THEN [err |-> errProductsEmpty, base |-> e, cfg |-> c]
        ELSE IF force \/ Len(diff.new) > 0 \/ Len(diff.removed) > 0
        THEN IF got.err # NoError
             THEN [err |-> got.err, base |-> e, cfg |-> c]
             ELSE [err |-> put.err,
                   base |-> IF enabled THEN [e EXCEPT !.Enabled = products]
                            ELSE [e EXCEPT !.Available = products],
                   cfg |-> put.cfg]
        ELSE [err |-> NoError, base |-> e, cfg |-> c]

ProductNames == {"btc", "LTC", ""}
ProductLists ==
    UNION {[1..n -> ProductNames] : n \in 0..MaxProducts}
BaseNames == {"ANX", "Blah"}

\* UAC.Name = name
SetName ==
    \E name \in BaseNames :
        /\ name # base.Name
        /\ base' = [base EXCEPT !.Name = name]
        /\ ret' = NoCall
        /\ UNCHANGED cfg
        /\ UNCHANGED <<stores, locks, now, panicked, calls, lastUpsert, tasks, written, focus>>
        /\ UNCHANGED engVars

\* UAC.UpdatePairs(exchangeProducts, enabled, force)
UpdatePairsCall ==
    \E exchangeProducts \in ProductLists, enabled \in BOOLEAN, force \in BOOLEAN :
        LET r == UpdatePairs(base, cfg, exchangeProducts, enabled, force)
        IN  /\ base' = r.base
            /\ cfg' = r.cfg
            /\ ret' = [op |-> "updatepairs", products |-> exchangeProducts,
                       enabled |-> enabled, force |-> force, err |-> r.err,
                       before |-> base]
            /\ UNCHANGED <<stores, locks, now, panicked, calls, lastUpsert, tasks, written, focus>>
            /\ UNCHANGED engVars

PairsNext == SetName \/ UpdatePairsCall

SpecPairs == EngInit /\ [][PairsNext]_vars

\* Validation alone: Add calls over every combination of valid and invalid
\* arguments
MaxValidAdds == 1

AllRequests ==
    { Request(exchange, item, ConditionParams(cond, price, TRUE, FALSE, amount), action) :
        exchange \in {"Bitmex", "Exmo", "Kraken"},
        item \in {"PRICE", "ORDERBOOK", "price", "VOLUME"},
        cond \in {">=", "<>"},
        price \in {0, 2},
        amount \in {0, 50},
        action \in {"CONSOLE_PRINT", "EMAIL", "SMS,ALL"} }

ValidAdd == Len(heap) < MaxValidAdds /\ \E r \in AllRequests : Add(r)

SpecValid == EngInit /\ [][ValidAdd]_vars

\* Condition evaluation alone: processCondition on given numbers, and
\* CheckCondition of given Events on the stores as the connector filled them
MaxValue == 4
MaxEvalFeeds == 1

Operators == {">", ">=", "<", "<=", "==", "<>"}

Probe(item, condition) ==
    [ID |-> 0, Exchange |-> "Bitmex", Item |-> item, Condition |-> condition,
     Pair |-> BTCUSD, Asset |-> "SPOT", Action |-> "CONSOLE_PRINT", Executed |-> FALSE]
Probes ==
    { Probe("ORDERBOOK", ConditionParams(cond, 0, checkBids, both, amount)) :
        cond \in {">=", "<"}, checkBids \in BOOLEAN, both \in BOOLEAN, amount \in {50, 51} }
    \cup
    { Probe("PRICE", ConditionParams(cond, price, FALSE, FALSE, 0)) :
        cond \in Operators, price \in {1, 2} }

EvalFeeds(s) ==
    IF s = "ticker" THEN Feeds(s)
    ELSE { [ZeroBase EXCEPT !.Bids = bids, !.Asks = asks] :
             bids \in {<<>>, <<Item(5, 10)>>, <<Item(1, 11)>>, <<Item(5, 10), Item(6, 10)>>,
                        <<Item(5, 10), Item(1, 11)>>},
             asks \in {<<>>, <<Item(5, 10)>>, <<Item(1, 11)>>} }

EvalFeed ==
    /\ calls.upsert < MaxEvalFeeds
    /\ \E s \in StoreNames : \E snap \in EvalFeeds(s) : Feed(s, snap)

\* e.processCondition(actual, threshold)
EvalCompare ==
    \E cond \in Operators, actual \in 0..MaxValue, threshold \in 0..MaxValue :
        /\ ret' = [op |-> "compare", cond |-> cond, actual |-> actual,
                   threshold |-> threshold,
                   r |-> processCondition(Probe("PRICE", ConditionParams(cond, threshold,
                                                     FALSE, FALSE, 0)), actual, threshold)]
        /\ UNCHANGED <<stores, locks, now, panicked, calls, lastUpsert, tasks, written, focus>>
        /\ UNCHANGED <<engVars, cfgVars>>

\* e.CheckCondition()
EvalCheck ==
    \E e \in Probes :
        /\ ret' = [op |-> "check", event |-> e, r |-> CheckCondition(e)]
        /\ UNCHANGED <<stores, locks, now, panicked, calls, lastUpsert, tasks, written, focus>>
        /\ UNCHANGED <<engVars, cfgVars>>

EvalNext == EvalFeed \/ EvalCompare \/ EvalCheck

SpecEval == EngInit /\ [][EvalNext]_vars

----------------------------------------------------------------------------
\* Claims on the engine

Objects == 1..Len(heap)

\* C4: over any run of the engine, ExecuteAction is invoked at most once for
\* every Event, whatever the number of order-book levels that satisfy its
\* condition, and exactly once if the Event is executed.
C4_ActionFiredOnce ==
    \A o \in Objects :
        /\ trail[o].fired <= 1
        /\ heap[o].Executed => trail[o].fired = 1

\* C5: an Event whose condition is satisfied when the engine comes to it in a
\* tick is executed at the end of that tick, and once it is executed the
\* engine never evaluates its condition nor performs its action again.
C5_AtMostOnce ==
    /\ [](mgr.pc = "sleep" => \A o \in Objects : trail[o].sat => heap[o].Executed)
    /\ [][\A o \in Objects :
            heap[o].Executed =>
                /\ trail'[o].checks = trail[o].checks
                /\ trail'[o].fired = trail[o].fired
                /\ heap'[o].Executed]_vars

\* an executed Event whose condition still holds was passed over by a later scan
C5_Witness ==
    \E o \in Objects :
        /\ heap[o].Executed
        /\ trail[o].sat
        /\ Satisfied(heap[o])
        /\ trail[o].skips >= 1
        /\ trail[o].checks = 1
        /\ mgr.tick = 2

\* C18: the executed flag of an Event changes only from false to true, only
\* in the step in which the engine evaluated the Event and found a match,
\* and no other field of a registered Event ever changes.
C18_ExecutedOnlyRises ==
    [][\A o \in Objects :
        \/ heap'[o] = heap[o]
        \/ /\ ~heap[o].Executed
           /\ heap'[o] = [heap[o] EXCEPT !.Executed = TRUE]
           /\ mgr.pc = "scan" /\ ScanAt = o
           /\ trail'[o].checks = trail[o].checks + 1
           /\ trail'[o].fired > trail[o].fired]_vars

\* an Event was executed by a scan that is over; a younger Event exists
C18_Witness ==
    \E o \in Objects :
        /\ heap[o].Executed
        /\ trail[o].fired >= 1
        /\ o < Len(heap)
        /\ mgr.pc = "sleep"

\* a step of the engine's range loop, and a step that starts a tick
ScanStep == mgr.pc = "scan" /\ Len(trail') = Len(trail) /\ trail' # trail
TickStep == mgr.pc = "sleep" /\ mgr' # mgr

\* the Lookup of the store named by the item of e fails
LookupFails(e) ==
    CASE e.Item = "PRICE" -> GetTicker(e.Exchange, e.Pair, e.Asset).err # NoError
      [] e.Item = "ORDERBOOK" -> GetOrderbook(e.Exchange, e.Pair, e.Asset).err # NoError
      [] OTHER -> FALSE

\* C22: when the Lookup for a pending Event fails in a tick the Event is
\* skipped: it stays not executed, its action is not performed, the registry
\* and both stores are unchanged; it is still pending, and a tick that starts
\* with a pending Event in the registry scans the registry again and the
\* scan evaluates every pending Event it comes to.
C22_FailedLookupSkips ==
    /\ [][(ScanStep /\ Pending(heap[ScanAt]) /\ LookupFails(heap[ScanAt])) =>
            /\ heap' = heap
            /\ ~heap'[ScanAt].Executed
            /\ trail'[ScanAt].fired = trail[ScanAt].fired
            /\ comms' = comms
            /\ Events' = Events
            /\ stores' = stores]_vars
    /\ [][(TickStep /\ \E k \in 1..Events.len : Pending(Registry[k])) =>
            /\ mgr'.pc = "scan"
            /\ mgr'.len = Events.len]_vars
    /\ [][(ScanStep /\ Pending(heap[ScanAt])) =>
            trail'[ScanAt].checks = trail[ScanAt].checks + 1]_vars

\* no snapshot was ever upserted: an Event was evaluated in two ticks, its
\* Lookup failed both times, and it is still pending
C22_Witness ==
    \E o \in Objects :
        /\ calls.upsert = 0
        /\ LookupFails(heap[o])
        /\ trail[o].checks = 2
        /\ trail[o].fired = 0
        /\ ~heap[o].Executed
        /\ comms.pushed = 0 /\ comms.logged = 0

\* C24: an Event becomes executed in a tick iff its condition evaluated to a
\* match in that tick (the action was dispatched for it); whether the
\* notification pushed by the dispatch is delivered or not, the Event is
\* marked executed.
C24_ExecutedIffMatched ==
    [][\A o \in Objects :
        (~heap[o].Executed /\ heap'[o].Executed)
            <=> (/\ ScanStep
                 /\ ScanAt = o
                 /\ Pending(heap[o])
                 /\ trail'[o].fired > trail[o].fired)]_vars

\* an Event with the action SMS,ALL matched and is executed although the
\* notification pushed for it was not delivered
C24_Witness ==
    \E o \in Objects :
        /\ heap[o].Action = "SMS,ALL"
        /\ heap[o].Executed
        /\ trail[o].fired = 1
        /\ comms.pushed = 1
        /\ comms.delivered = 0

----------------------------------------------------------------------------
\* Claims on the registry

\* a step of a successful Add, of any Remove
AddStep == Len(heap') = Len(heap) + 1
RemoveStep == calls'.remove = calls.remove + 1

\* C12: the identifier returned by a successful Add equals the number of
\* Events in the registry immediately before the call.
C12_IdIsRegistryLength == [][AddStep => ret'.id = Events.len]_vars

\* the registry without its k-th Event
Without(reg, k) == [j \in 1..(Len(reg) - 1) |-> IF j < k THEN reg[j] ELSE reg[j + 1]]
\* the places of the Events with that id
Places(reg, id) == {k \in 1..Len(reg) : reg[k].ID = id}
First(places) == CHOOSE k \in places : \A j \in places : k <= j

\* C13: Remove(id) returns true iff some Event of the registry has that id;
\* it then removes the first such Event and nothing else, the other Events
\* keeping their ids, fields and order; when it returns false the registry
\* is unchanged.
C13_RemoveFirstMatch ==
    [][RemoveStep =>
        LET places == Places(Registry, ret'.id)
        IN  /\ ret'.ok <=> places # {}
            /\ ret'.ok => Registry' = Without(Registry, First(places))
            /\ ~ret'.ok => Registry' = Registry]_vars

\* a Remove took the first of two Events of the same id; the second one, the
\* Event registered last, is still there
C13_Witness ==
    /\ ret.op = "remove"
    /\ ret.ok
    /\ \E k \in 1..Events.len :
            /\ Registry[k].ID = ret.id
            /\ Events.arr[k] = Len(heap)

\* the item kind meant by the caller, whatever the letter case
Kind(item) ==
    CASE item \in {"PRICE", "price"} -> "PRICE"
      [] item \in {"ORDERBOOK", "orderbook"} -> "ORDERBOOK"
      [] OTHER -> "none"

\* C14: Add fails with ExchangeDisabled when the exchange is not an enabled
\* configured one, with InvalidItem when the item is neither PRICE nor
\* ORDERBOOK, with InvalidCondition when the operator is not one of the five,
\* with InvalidAction when the item is ORDERBOOK and the notional is 0, and
\* is rejected when the item is PRICE and the price is 0; of several invalid
\* arguments the first in the order exchange, item, operator, threshold,
\* action decides the error.
C14_ValidationOrder ==
    ret.op = "add" =>
        LET r == ret.req
            enabled == r.Exchange = "Bitmex"
            operator == r.Condition.Condition \in {">", ">=", "<", "<=", "=="}
        IN  IF ~enabled THEN ret.err = errExchangeDisabled
            ELSE IF Kind(r.Item) = "none" THEN ret.err = errInvalidItem
            ELSE IF ~operator THEN ret.err = errInvalidCondition
            ELSE IF Kind(r.Item) = "PRICE" /\ r.Condition.Price = 0 THEN ret.err # NoError
            ELSE IF Kind(r.Item) = "ORDERBOOK" /\ r.Condition.OrderbookAmount = 0
                 THEN ret.err = errInvalidAction
            ELSE IF r.Action = "EMAIL" THEN ret.err = errInvalidAction
            ELSE ret.err = NoError

\* an Add with a disabled exchange, an unknown item and a bad operator at once
C14_Witness ==
    /\ ret.op = "add"
    /\ ret.req.Exchange = "Exmo"
    /\ ret.req.Item = "VOLUME"
    /\ ret.req.Condition.Condition = "<>"
    /\ ret.req.Action = "EMAIL"
    /\ ret.err = errExchangeDisabled

\* C15: an Add that returns a validation error creates no Event: the registry
\* (its length, its Events, their ids and executed flags) is the same before
\* and after the call.
C15_RejectedAddCreatesNothing ==
    [][(ret'.op = "add" /\ ret'.err # NoError /\ ret' # ret) =>
            /\ Registry' = Registry
            /\ Events' = Events
            /\ heap' = heap]_vars

\* an Add was rejected on a registry of two Events
C15_Witness ==
    /\ ret.op = "add"
    /\ ret.err = errInvalidItem
    /\ Events.len = 2
    /\ Len(heap) = 2

\* C16: a successful Add appends exactly one new Event at the end of the
\* registry, not executed and with the given exchange, item, condition,
\* pair, asset type and action, returns the id of that Event, and leaves
\* every Event registered before unchanged.
C16_AddAppendsOne ==
    [][AddStep =>
        LET e == Registry'[Events'.len]
            r == ret'.req
        IN  /\ Events'.len = Events.len + 1
            /\ SubSeq(Registry', 1, Events.len) = Registry
            /\ ~e.Executed
            /\ e.Exchange = r.Exchange /\ e.Item = r.Item /\ e.Condition = r.Condition
            /\ e.Pair = r.Pair /\ e.Asset = r.Asset /\ e.Action = r.Action
            /\ ret'.op = "add" /\ ret'.err = NoError /\ ret'.id = e.ID]_vars

\* an Add has just put a third Event behind two others
C16_Witness ==
    /\ ret.op = "add"
    /\ ret.err = NoError
    /\ Events.len = 3
    /\ Registry[3].ID = ret.id
    /\ Registry[3].Action = ret.req.Action
    /\ Events.arr[3] = Len(heap)

\* C17: while no Remove has been made, the ids given by successive
\* successful Add calls are strictly increasing in registration order.
C17_IdsIncrease ==
    calls.remove = 0 =>
        \A i, j \in 1..Events.len : i < j => Registry[i].ID < Registry[j].ID

\* three Events registered and no Remove made
C17_Witness ==
    /\ calls.remove = 0
    /\ Events.len = 3
    /\ <<Registry[1].ID, Registry[2].ID, Registry[3].ID>> = <<0, 2, 3>>

----------------------------------------------------------------------------
\* Claims on the evaluation of conditions

\* C19: for each of the operators >, >=, <, <=, == and every actual and
\* threshold value, processCondition matches iff 'actual operator threshold'
\* holds.
C19_ConditionCorrect ==
    ret.op = "compare" =>
        (ret.r.ok <=> Holds(ret.cond, ret.actual, ret.threshold))

\* equal values were compared with >= (a match) and with > (no match)
C19_Witness ==
    /\ ret.op = "compare"
    /\ ret.actual = ret.threshold
    /\ \/ ret.cond = ">=" /\ ret.r.ok
       \/ ret.cond = ">" /\ ~ret.r.ok

\* the levels of a side whose amount x price meets the condition of e
Matching(e, levels) ==
    {x \in 1..Len(levels) :
        Holds(e.Condition.Condition, levels[x].Amount * levels[x].Price,
              e.Condition.OrderbookAmount)}

\* C20: for an ORDERBOOK Event the bid levels are compared iff CheckBids or
\* CheckBidsAndAsks is set and the ask levels iff CheckBids is not set or
\* CheckBidsAndAsks is set; a level of a side not selected never triggers
\* the Event.
C20_SideSelection ==
    (ret.op = "check" /\ ret.event.Item = "ORDERBOOK") =>
        LET e == ret.event
            c == e.Condition
            book == GetOrderbook(e.Exchange, e.Pair, e.Asset)
            bids == IF c.CheckBids \/ c.CheckBidsAndAsks
                    THEN Matching(e, book.snap.Bids) ELSE {}
            asks == IF ~c.CheckBids \/ c.CheckBidsAndAsks
                    THEN Matching(e, book.snap.Asks) ELSE {}
        IN  book.err = NoError =>
                /\ ret.r.ok <=> (bids # {} \/ asks # {})
                /\ ret.r.fired = Cardinality(bids) + Cardinality(asks)

\* bids only were selected, only an ask level met the condition, and the
\* Event did not trigger
C20_Witness ==
    /\ ret.op = "check"
    /\ ret.event.Item = "ORDERBOOK"
    /\ ret.event.Condition.CheckBids /\ ~ret.event.Condition.CheckBidsAndAsks
    /\ LET book == GetOrderbook("Bitmex", BTCUSD, "SPOT")
       IN  /\ book.err = NoError
           /\ Matching(ret.event, book.snap.Asks) # {}
           /\ Matching(ret.event, book.snap.Bids) = {}
    /\ ~ret.r.ok

\* the levels of the sides that processOrderbook goes through for e
SelectedLevels(e, book) ==
    (IF e.Condition.CheckBids \/ e.Condition.CheckBidsAndAsks THEN book.Bids ELSE <<>>)
    \o (IF ~e.Condition.CheckBids \/ e.Condition.CheckBidsAndAsks THEN book.Asks ELSE <<>>)

\* C21: an ORDERBOOK Event triggers iff at least one single level of a
\* selected side has amount x price meeting the operator against the
\* threshold notional; the sum of the levels is never compared: a bid of
\* price 10 and amount 5 with ">=" triggers for the threshold 50 and not for 51.
C21_SingleLevelTriggers ==
    (ret.op = "check" /\ ret.event.Item = "ORDERBOOK") =>
        LET e == ret.event
            book == GetOrderbook(e.Exchange, e.Pair, e.Asset)
            levels == SelectedLevels(e, book.snap)
        IN  book.err = NoError =>
                /\ ret.r.ok <=>
                      \E x \in 1..Len(levels) :
                          Holds(e.Condition.Condition, levels[x].Amount * levels[x].Price,
                                e.Condition.OrderbookAmount)
                /\ (/\ e.Condition.Condition = ">="
                    /\ e.Condition.CheckBids
                    /\ ~e.Condition.CheckBidsAndAsks
                    /\ book.snap.Bids = <<Item(5, 10)>>)
                   => (ret.r.ok <=> e.Condition.OrderbookAmount = 50)

\* the selected bids reach the threshold 51 in sum (50 + 11) but none of them
\* alone, and the Event did not trigger
C21_Witness ==
    /\ ret.op = "check"
    /\ ret.event.Item = "ORDERBOOK"
    /\ ret.event.Condition.Condition = ">="
    /\ ret.event.Condition.CheckBids /\ ~ret.event.Condition.CheckBidsAndAsks
    /\ ret.event.Condition.OrderbookAmount = 51
    /\ LET book == GetOrderbook("Bitmex", BTCUSD, "SPOT")
       IN  /\ book.err = NoError
           /\ book.snap.Bids = <<Item(5, 10), Item(1, 11)>>
           /\ Notional(book.snap.Bids) >= 51
    /\ ~ret.r.ok

\* C23: a PRICE Event is never triggered by a ticker snapshot whose last
\* price is 0, whatever the operator and the threshold, "<" and "<=" with a
\* positive threshold included: the action is not performed.
C23_ZeroPriceNeverTriggers ==
    (ret.op = "check" /\ ret.event.Item = "PRICE") =>
        LET e == ret.event
            t == GetTicker(e.Exchange, e.Pair, e.Asset)
        IN  (t.err = NoError /\ t.snap.Last = 0) =>
                /\ ~ret.r.ok
                /\ ret.r.fired = 0
                /\ ret.r.pushed = 0
                /\ ret.r.logged = 0

\* a snapshot with last price 0 was upserted, and an Event with "<" and the
\* threshold 2 did not trigger on it
C23_Witness ==
    /\ ret.op = "check"
    /\ ret.event.Item = "PRICE"
    /\ ret.event.Condition.Condition = "<"
    /\ ret.event.Condition.Price = 2
    /\ calls.upsert = 1
    /\ LET t == GetTicker("Bitmex", BTCUSD, "SPOT")
       IN  t.err = NoError /\ t.snap.Pair = BTCUSD /\ t.snap.Last = 0
    /\ ~ret.r.ok

\* C33: the id returned by a successful Add identifies the Event just
\* registered, after any sequence of Add and Remove calls: no other Event of
\* the registry carries it, so that Remove(id) would take out that Event.
C33_ReturnedIdIsUnique ==
    (ret.op = "add" /\ ret.err = NoError) =>
        /\ Registry[Events.len].ID = ret.id
        /\ \A k \in 1..Events.len : Registry[k].ID = ret.id => k = Events.len

\* C34: every Event accepted by Add has PRICE or ORDERBOOK as its stored
\* item, whatever the letter case of the item given to Add, and the engine
\* evaluates an Event registered as a price watch on the ticker store and
\* one registered as an order-book watch on the order-book store.
C34_StoredItemRecognized ==
    \A o \in Objects :
        /\ heap[o].Item \in {ItemPrice, ItemOrderbook}
        /\ CheckCondition(heap[o]) =
              IF StringToUpper(heap[o].Item) = ItemPrice
              THEN processTicker(heap[o]) ELSE processOrderbook(heap[o])

----------------------------------------------------------------------------
\* Claims on actions

\* the targets a notification can be addressed to
NotificationTargets == {"ALL"}

\* an action as Register is to accept it: a recognized token, or the notify
\* token and a valid target
AcceptableAction(ac) ==
    LET up == StringToUpper(ac)
    IN  IF StringContains(up, ",")
        THEN /\ SplitStrings(up, ",")[1] = ActionSMSNotify
             /\ SplitStrings(up, ",")[2] \in NotificationTargets
        ELSE IsValidAction(up)

\* C25: Register accepts an action only if it is a recognized token or the
\* compound form whose first part is the notify token and whose target is a
\* valid notification target; with any other action, a compound one with an
\* invalid target included, Register fails and no Event is created.
C25_InvalidActionRejected ==
    /\ (ret.op = "add" /\ ret.err = NoError) => AcceptableAction(ret.req.Action)
    /\ (ret.op = "add" /\ ~AcceptableAction(ret.req.Action)) =>
            \A k \in 1..Events.len : Registry[k].Action # ret.req.Action

\* the calls of ExecuteAction over all Events
RECURSIVE Fired(_)
Fired(n) == IF n = 0 THEN 0 ELSE trail[n].fired + Fired(n - 1)

\* C26: every dispatch of an action either forwards the description to the
\* notification collaborator (compound notify form with target ALL) or logs
\* it (plain token), one of the two for every accepted action: there are as
\* many notifications and log entries together as dispatches.
C26_NotificationOrLog ==
    Fired(Len(heap)) = comms.pushed + comms.logged

----------------------------------------------------------------------------
\* Claims on concurrent calls of the registry

\* the Events in the registry
Registered == {Events.arr[k] : k \in 1..Events.len}

\* C27: the registry is protected against concurrent use.  When Add and
\* Remove calls interleave, every Add that returned without an error has left
\* its Event in the registry (no two concurrent Adds overwrite one another or
\* return the same id), as long as no Remove was called; and a Remove that
\* returns true takes exactly one Event out of the registry.
C27_RegistryProtected ==
    /\ []((calls.remove = 0 /\ \A t \in Tasks : tasks[t] = IdleTask) =>
            /\ Registered = Objects
            /\ \A o1, o2 \in Objects : heap[o1].ID = heap[o2].ID => o1 = o2)
    /\ [][(ret'.op = "remove" /\ ret'.ok /\ calls'.remove = calls.remove) =>
            \E o \in Registered :
                /\ heap[o].ID = ret'.id
                /\ Registered' = Registered \ {o}]_vars

----------------------------------------------------------------------------
\* Claims on UpdatePairs

\* the pairs asked for differ from the list held in memory
ListChanges(before, products, enabled) ==
    {StringToUpper(products[x]) : x \in 1..Len(products)} \ {""}
        # Elements(IF enabled THEN before.Enabled ELSE before.Available)

\* C32 as stated: UpdatePairs on an exchange whose name is not in the
\* configuration returns an error for every non-empty product list and either
\* value of the two flags, and UpdatePairs with an empty product list returns
\* an error; in both cases the two pair lists of the exchange are unchanged.
C32_UnknownExchangeFails ==
    ret.op = "updatepairs" =>
        /\ (base.Name \notin DOMAIN cfg /\ ret.products # <<>>) => ret.err # NoError
        /\ ret.products = <<>> => ret.err # NoError
        /\ ret.err # NoError => base = ret.before

\* C32 as amended: on an exchange whose name is not in the configuration
\* UpdatePairs with a non-empty product list returns an error iff force is
\* set or the products differ from the list held in memory, and nil when
\* there is nothing to update; with an empty product list it returns an
\* error; in the error cases the two pair lists are unchanged.
C32_UnknownExchangeFailsOnChange ==
    ret.op = "updatepairs" =>
        /\ (base.Name \notin DOMAIN cfg /\ ret.products # <<>>) =>
              (ret.err # NoError
                  <=> (ret.force \/ ListChanges(ret.before, ret.products, ret.enabled)))
        /\ ret.products = <<>> => ret.err # NoError
        /\ ret.err # NoError => base = ret.before

\* a forced update of an exchange not in the configuration failed and left
\* the enabled pairs it held in place
C32_Witness ==
    /\ ret.op = "updatepairs"
    /\ base.Name = "Blah"
    /\ ret.products # <<>>
    /\ ret.force /\ ret.enabled
    /\ ret.err = ErrExchangeNotInConfig
    /\ base.Enabled # <<>>
    /\ base.Enabled # CleanProducts(ret.products)

\* C36: Add has no effect other than appending the new Event: no call of
\* Add, accepted or rejected and whatever its action string, invokes the
\* notification collaborator or changes a store, and a rejected call leaves
\* the registry as it was.
C36_AddOnlyAppends ==
    [][ret'.op = "add" =>
        /\ comms' = comms
        /\ stores' = stores
        /\ ret'.err # NoError => Events' = Events]_vars

----------------------------------------------------------------------------
\* Claims on the liveness of the engine

\* the Event struct o is in the registry, is a price watch, and the ticker
\* store holds for its triple a non-zero last price that meets its condition
Holding(o) ==
    /\ o <= Len(heap)
    /\ o \in Registered
    /\ heap[o].Item = ItemPrice
    /\ Satisfied(heap[o])

Done(o) == o <= Len(heap) /\ heap[o].Executed

\* C35: under fair scheduling of the engine loop, if from some point on a
\* price watch stays in the registry and the ticker store holds for its
\* triple a non-zero last price meeting its condition, the Event is
\* eventually executed, at the latest when the first full tick that starts
\* after that point has ended.  The points examined are those after which
\* the loop runs two ticks more, so that an Event passed over by one tick is
\* still met by the next.
C35_EventuallyTriggered ==
    \A o \in 1..MaxLiveCalls : \A n \in 0..(MaxTicks - 2) :
        []((mgr.pc = "sleep" /\ mgr.tick = n /\ Holding(o)) =>
              ([]Holding(o) => /\ <>Done(o)
                               /\ [](mgr.tick > n => Done(o))))

----------------------------------------------------------------------------
\* Claims on the connector

\* a call of Fetch has just returned
FetchStep == calls'.lookup = calls.lookup + 1 /\ ret'.op = "fetch"

\* the snapshot the store holds for a triple, if one was ever upserted for it
Upserted(s, exchange, p, a) == Key(s, exchange, p, a) \in DOMAIN written

\* C37, its first half: Fetch returns the cached snapshot without refreshing
\* iff the cache Lookup succeeds and otherwise returns the result of the
\* update.
FetchIsCacheAside ==
    [][FetchStep =>
        LET s == ret'.store
            r == Lookup(stores[s], "Bitmex", ret'.pair, ret'.asset, Zero(s))
        IN  IF r.err = NoError
            THEN /\ ~ret'.refreshed
                 /\ ret'.err = NoError
                 /\ ret'.snap = r.snap
                 /\ stores' = stores
            ELSE \/ ret'.err # NoError /\ ~ret'.refreshed /\ stores' = stores
                 \/ /\ ret'.refreshed
                    /\ ret'.err = NoError
                    /\ Payload(s, ret'.snap) =
                          Payload(s, Lookup(stores'[s], "Bitmex", ret'.pair, ret'.asset,
                                            Zero(s)).snap)]_vars

====
